---- MODULE Spec2Model ----
(***************************************************************************)
(* A model of photogrammetry_importer/types/camera.py: the Camera class,   *)
(* its pose setters, path resolution, intrinsics queries and depth-map     *)
(* unprojection.                                                           *)
(*                                                                         *)
(* Numbers.  The code computes with numpy float64.  The model computes     *)
(* with exact rationals <<n, d>> (d > 0, lowest terms); a quaternion,      *)
(* whose components hold square roots, is kept as a rational vector over a *)
(* common positive real scale sqrt(den2).  Rounding error is therefore not *)
(* modelled: "equal" below is equality of the exact values.                *)
(*                                                                         *)
(* Optional fields.  Python's None is the empty sequence, a set value v is *)
(* the one-element sequence <<v>>.                                         *)
(***************************************************************************)
EXTENDS Integers, Sequences, FiniteSets, TLC

VARIABLES
    center,             \* self._center
    translation_vec,    \* self._translation_vec
    quaternion,         \* self._quaternion
    rotation_mat,       \* self._rotation_mat
    calibration_mat,    \* self._calibration_mat
    radial_distortion,  \* self._radial_distortion: "absent", "None" or "given"
    image_fp_type,      \* self.image_fp_type
    image_dp,           \* self.image_dp
    relative_fp,        \* self._relative_fp
    absolute_fp,        \* self._absolute_fp
    width,              \* self.width
    height,             \* self.height
    depth_map_fp,       \* self.depth_map_fp
    depth_map_callback, \* self.depth_map_callback, as the array it decodes
    depth_map_semantic, \* self.depth_map_semantic
    lastOp,             \* the operation called last
    err,                \* how that call ended: "ok" or the exception raised
    ret,                \* what that call returned (<<>> when nothing)
    caller              \* the code calling the Camera: its position and values

vars == <<center, translation_vec, quaternion, rotation_mat, calibration_mat,
          radial_distortion, image_fp_type, image_dp, relative_fp, absolute_fp, width, height,
          depth_map_fp, depth_map_callback, depth_map_semantic,
          lastOp, err, ret, caller>>

poseVars == <<center, translation_vec, quaternion, rotation_mat>>
intrVars == <<calibration_mat, radial_distortion>>
pathVars == <<image_fp_type, image_dp, relative_fp, absolute_fp>>
sizeVars == <<width, height>>
depthVars == <<depth_map_fp, depth_map_callback, depth_map_semantic>>

-----------------------------------------------------------------------------
(* Bounds of the model.                                                    *)

\* largest magnitude of a coordinate of an input centre / translation vector
MaxCoord == 1
\* longest relative path (in characters) passed to set_relative_fp
MaxPathLen == 3
\* largest depth value of a pixel of a small decoded depth map
MaxDepth == 2
\* largest subsampling step tried besides the "no subsampling" value
MaxStep == 3
\* largest image width / height assigned besides the wide depth map's width
MaxSide == 2
\* width of the one-row depth map with more than 100 positive pixels
WideWidth == 102

-----------------------------------------------------------------------------
(* Optional values.                                                        *)

None == <<>>
Some(v) == <<v>>
IsNone(o) == Len(o) = 0
Val(o) == o[1]

-----------------------------------------------------------------------------
(* Exact rational arithmetic, standing for the float64 arithmetic.         *)

Abs(x) == IF x < 0 THEN -x ELSE x

RECURSIVE GCD(_, _)
GCD(a, b) == IF b = 0 THEN a ELSE GCD(b, a % b)

Rat(n, d) ==
    LET s == IF d < 0 THEN -1 ELSE 1
        g == GCD(Abs(n), Abs(d))
    IN  <<(s * n) \div g, (s * d) \div g>>

FromInt(i) == <<i, 1>>
RZero == <<0, 1>>
ROne == <<1, 1>>
RAdd(a, b) == Rat(a[1] * b[2] + b[1] * a[2], a[2] * b[2])
RNeg(a) == <<-a[1], a[2]>>
RSub(a, b) == RAdd(a, RNeg(b))
RMul(a, b) == Rat(a[1] * b[1], a[2] * b[2])
RDiv(a, b) == Rat(a[1] * b[2], a[2] * b[1])
RAbs(a) == <<Abs(a[1]), a[2]>>
RLt(a, b) == a[1] * b[2] < b[1] * a[2]
RLe(a, b) == a[1] * b[2] <= b[1] * a[2]
RHalf == <<1, 2>>
RTwo == <<2, 1>>

\* np.isclose(a, b) for an integer b, with numpy's defaults rtol = 1e-05 and
\* atol = 1e-08: |a - b| <= atol + rtol * |b| = (1 + 1000 |b|) / 10^8.
\* (floor(x / y) >= k iff x >= k * y: the products stay within 32 bits.)
IsClose(a, b) ==
    LET diff == RAbs(RSub(a, FromInt(b)))
    IN  \/ diff[1] = 0
        \/ ((1 + 1000 * Abs(b)) * diff[2]) \div diff[1] >= 100000000

-----------------------------------------------------------------------------
(* Vectors and 3x3 matrices of rationals.                                  *)

I3 == 1..3

IntVec(v) == [i \in DOMAIN v |-> FromInt(v[i])]
IntMat(m) == [i \in DOMAIN m |-> IntVec(m[i])]

ZeroVec == IntVec(<<0, 0, 0>>)
ZeroMat == IntMat(<<<<0, 0, 0>>, <<0, 0, 0>>, <<0, 0, 0>>>>)
IdentityMat == IntMat(<<<<1, 0, 0>>, <<0, 1, 0>>, <<0, 0, 1>>>>)

Transpose(m) == [i \in I3 |-> [j \in I3 |-> m[j][i]]]

\* np.dot(m, v) for a 3x3 matrix and a 3-vector
Dot(m, v) ==
    [i \in I3 |-> RAdd(RAdd(RMul(m[i][1], v[1]), RMul(m[i][2], v[2])),
                       RMul(m[i][3], v[3]))]

VNeg(v) == [i \in DOMAIN v |-> RNeg(v[i])]
VAdd(u, v) == [i \in DOMAIN u |-> RAdd(u[i], v[i])]
VScale(k, v) == [i \in DOMAIN v |-> RMul(k, v[i])]

\* np.linalg.det of a 3x3 matrix
Det(m) ==
    LET minor(a, b, c, d) == RSub(RMul(a, d), RMul(b, c))
    IN  RAdd(RSub(RMul(m[1][1], minor(m[2][2], m[2][3], m[3][2], m[3][3])),
                  RMul(m[1][2], minor(m[2][1], m[2][3], m[3][1], m[3][3]))),
             RMul(m[1][3], minor(m[2][1], m[2][2], m[3][1], m[3][2])))

MatMul(a, b) == [i \in I3 |-> [j \in I3 |->
    RAdd(RAdd(RMul(a[i][1], b[1][j]), RMul(a[i][2], b[2][j])),
         RMul(a[i][3], b[3][j]))]]

-----------------------------------------------------------------------------
(* Rotation validity and the quaternion conversions (static methods).      *)

is_rotation_mat_valid(some_mat) ==
    LET det == Det(some_mat)
    IN  IsClose(det, 1) \/ IsClose(det, -1)

\* A quaternion value: component i is num[i] / sqrt(den2), den2 > 0.
\* Index 1 is w (q[0] in the code), 2..4 are x, y, z.
Quat(n, d2) == [num |-> n, den2 |-> d2]
IntQuat(q) == Quat(IntVec(q), ROne)

\* The products qa*qb of the normalised quaternion, as the code forms them:
\* qq = sqrt(sum of squares); qq > 0 normalises, otherwise (1, 0, 0, 0).
NormSq(q) ==
    RAdd(RAdd(RMul(q.num[1], q.num[1]), RMul(q.num[2], q.num[2])),
         RAdd(RMul(q.num[3], q.num[3]), RMul(q.num[4], q.num[4])))

NormProd(q, i, j) ==
    IF RLt(RZero, NormSq(q))
    THEN RDiv(RMul(q.num[i], q.num[j]), NormSq(q))
    ELSE IF i = 1 /\ j = 1 THEN ROne ELSE RZero

quaternion_to_rotation_matrix(q) ==
    LET p(i, j) == NormProd(q, i, j)
        two(a) == RMul(RTwo, a)
    IN  <<  <<RSub(RSub(RAdd(p(1, 1), p(2, 2)), p(4, 4)), p(3, 3)),
              RSub(two(p(2, 3)), two(p(4, 1))),
              RAdd(two(p(3, 1)), two(p(4, 2)))>>,
            <<RAdd(two(p(2, 3)), two(p(1, 4))),
              RSub(RSub(RAdd(p(3, 3), p(1, 1)), p(4, 4)), p(2, 2)),
              RSub(two(p(4, 3)), two(p(2, 1)))>>,
            <<RSub(two(p(2, 4)), two(p(3, 1))),
              RAdd(two(p(3, 4)), two(p(1, 2))),
              RSub(RSub(RAdd(p(4, 4), p(1, 1)), p(3, 3)), p(2, 2))>>  >>

\* x > 0.000000001  (floor(d / n) < k iff d < k * n)
GtEps(x) == x[1] > 0 /\ x[2] \div x[1] < 1000000000

\* 1 + m[0][0] + m[1][1] + m[2][2]
TracePlusOne(m) == RAdd(ROne, RAdd(m[1][1], RAdd(m[2][2], m[3][3])))

\* Which branch of rotation_matrix_to_quaternion a matrix takes (0..3).
BranchOf(m) ==
    IF GtEps(TracePlusOne(m)) THEN 0
    ELSE IF RLt(m[2][2], m[1][1]) /\ RLt(m[3][3], m[1][1]) THEN 1
    ELSE IF RLt(m[3][3], m[2][2]) THEN 2
    ELSE 3

\* Each branch computes a square root r = sqrt(D) and divides by a multiple
\* of it; with every component written over 2r = sqrt(4D) the numerators are
\* rational:  sqrt(D)/2 = D / sqrt(4D)  and  v / (2 sqrt(D)) = v / sqrt(4D).
rotation_matrix_to_quaternion(m) ==
    LET T == TracePlusOne(m)
        D1 == RSub(RSub(RAdd(ROne, m[1][1]), m[2][2]), m[3][3])
        D2 == RSub(RSub(RAdd(ROne, m[2][2]), m[1][1]), m[3][3])
        D3 == RSub(RSub(RAdd(ROne, m[3][3]), m[1][1]), m[2][2])
        four(d) == RMul(FromInt(4), d)
    IN  CASE BranchOf(m) = 0 ->
               Quat(<<T, RSub(m[3][2], m[2][3]), RSub(m[1][3], m[3][1]),
                      RSub(m[2][1], m[1][2])>>, four(T))
          [] BranchOf(m) = 1 ->
               Quat(<<RSub(m[2][3], m[3][2]), D1, RAdd(m[1][2], m[2][1]),
                      RAdd(m[1][3], m[3][1])>>, four(D1))
          [] BranchOf(m) = 2 ->
               Quat(<<RSub(m[1][3], m[3][1]), RAdd(m[1][2], m[2][1]), D2,
                      RAdd(m[2][3], m[3][2])>>, four(D2))
          [] OTHER ->
               Quat(<<RSub(m[1][2], m[2][1]), RAdd(m[1][3], m[3][1]),
                      RAdd(m[2][3], m[3][2]), D3>>, four(D3))

-----------------------------------------------------------------------------
(* The state after Camera.__init__ and the record of the last call.        *)

CameraInit ==
    /\ center = ZeroVec
    /\ translation_vec = ZeroVec
    /\ quaternion = IntQuat(<<0, 0, 0, 0>>)
    /\ rotation_mat = ZeroMat
    /\ calibration_mat = ZeroMat
    /\ radial_distortion = "absent"
    /\ image_fp_type = "None"
    /\ image_dp = None
    /\ relative_fp = None
    /\ absolute_fp = None
    /\ width = None
    /\ height = None
    /\ depth_map_fp = None
    /\ depth_map_callback = None
    /\ depth_map_semantic = "None"
    /\ lastOp = "__init__"
    /\ err = "ok"
    /\ ret = None

Idle == [pc |-> "idle"]

\* A call returns: its name, how it ended, its value.
Return(op, e, r) == lastOp' = op /\ err' = e /\ ret' = r

\* A call that raises before it has assigned anything.
Raise(op, e) ==
    /\ Return(op, e, None)
    /\ UNCHANGED <<poseVars, intrVars, pathVars, sizeVars, depthVars>>

-----------------------------------------------------------------------------
(* Inputs of the pose operations.                                          *)

Perms3 == {p \in [I3 -> I3] : \A i, j \in I3 : p[i] = p[j] => i = j}
Signs3 == [I3 -> {-1, 1}]

\* the 48 signed permutation matrices: the integer orthogonal matrices
SignedPerm(p, s) ==
    IntMat([i \in I3 |-> [j \in I3 |-> IF j = p[i] THEN s[i] ELSE 0]])
SignedPermMats == {SignedPerm(p, s) : p \in Perms3, s \in Signs3}

RotX180 == IntMat(<<<<1, 0, 0>>, <<0, -1, 0>>, <<0, 0, -1>>>>)
RotY180 == IntMat(<<<<-1, 0, 0>>, <<0, 1, 0>>, <<0, 0, -1>>>>)
RotZ180 == IntMat(<<<<-1, 0, 0>>, <<0, -1, 0>>, <<0, 0, 1>>>>)
RotZ90 == IntMat(<<<<0, -1, 0>>, <<1, 0, 0>>, <<0, 0, 1>>>>)
RotCyc == IntMat(<<<<0, 0, 1>>, <<1, 0, 0>>, <<0, 1, 0>>>>)
\* the rotation of the quaternion (1, 2, 0, 0) / sqrt(5): not an integer matrix
RotX35 == << <<ROne, RZero, RZero>>,
             <<RZero, Rat(-3, 5), Rat(-4, 5)>>,
             <<RZero, Rat(4, 5), Rat(-3, 5)>> >>
\* det = -1: reflections
MirrorZ == IntMat(<<<<1, 0, 0>>, <<0, 1, 0>>, <<0, 0, -1>>>>)
MinusIdentity == IntMat(<<<<-1, 0, 0>>, <<0, -1, 0>>, <<0, 0, -1>>>>)
\* det = +1 but not orthogonal
ShearXY == IntMat(<<<<1, 1, 0>>, <<0, 1, 0>>, <<0, 0, 1>>>>)
\* det = 8 and det = 0: rejected by is_rotation_mat_valid
TwiceIdentity == IntMat(<<<<2, 0, 0>>, <<0, 2, 0>>, <<0, 0, 2>>>>)

OtherMats == {RotX35, ShearXY, TwiceIdentity, ZeroMat}

PoseMatInputs ==
    {IdentityMat, RotX180, RotY180, RotZ180, RotZ90, RotCyc, RotX35,
     MirrorZ, MinusIdentity, ShearXY, TwiceIdentity}

QuatInputs ==
    {IntQuat(<<0, 0, 0, 0>>), IntQuat(<<1, 0, 0, 0>>), IntQuat(<<2, 0, 0, 0>>),
     IntQuat(<<1, 1, 0, 0>>), IntQuat(<<0, 0, 1, -1>>), IntQuat(<<1, 1, 1, 0>>),
     IntQuat(<<1, -1, 1, 1>>), IntQuat(<<0, 0, 0, -3>>)}

VecInputs ==
    {IntVec(t) : t \in {u \in (0..MaxCoord) \X (0..MaxCoord) \X (-MaxCoord..0) :
                            u[1] + u[2] - u[3] <= MaxCoord}}
    \cup {IntVec(<<1, -2, 3>>)}

\* A 4x4 camera-to-world matrix [[R^T, c], [0, 1]], as nested rows.
Mat4(rt3, c) ==
    << <<rt3[1][1], rt3[1][2], rt3[1][3], c[1]>>,
       <<rt3[2][1], rt3[2][2], rt3[2][3], c[2]>>,
       <<rt3[3][1], rt3[3][2], rt3[3][3], c[3]>>,
       <<RZero, RZero, RZero, ROne>> >>

CamToWorldInputs ==
    {Mat4(Transpose(r), c) :
        r \in {IdentityMat, RotZ90, RotX180, MirrorZ, ShearXY, TwiceIdentity},
        c \in {ZeroVec, IntVec(<<1, -2, 3>>)}}

\* cam_to_world_mat[0:3, 0:3] and cam_to_world_mat[0:3, 3]
UpperLeft3(m4) == [i \in I3 |-> [j \in I3 |-> m4[i][j]]]
LastColumn3(m4) == [i \in I3 |-> m4[i][4]]

-----------------------------------------------------------------------------
(* Pose setters.                                                           *)

NonPose == <<intrVars, pathVars, sizeVars, depthVars>>

set_quaternion(q) ==
    /\ quaternion' = q
    /\ rotation_mat' = quaternion_to_rotation_matrix(q)
    /\ Return("set_quaternion", "ok", None)
    /\ UNCHANGED <<center, translation_vec, NonPose>>

set_rotation_mat(m, check_rotation) ==
    IF check_rotation /\ ~is_rotation_mat_valid(m)
    THEN Raise("set_rotation_mat", "AssertionError")
    ELSE /\ rotation_mat' = m
         /\ quaternion' = rotation_matrix_to_quaternion(m)
         /\ Return("set_rotation_mat", "ok", None)
         /\ UNCHANGED <<center, translation_vec, NonPose>>

set_camera_center_after_rotation(c, check_rotation) ==
    IF check_rotation /\ ~is_rotation_mat_valid(rotation_mat)
    THEN Raise("set_camera_center_after_rotation", "AssertionError")
    ELSE /\ center' = c
         /\ translation_vec' = VNeg(Dot(rotation_mat, c))
         /\ Return("set_camera_center_after_rotation", "ok", None)
         /\ UNCHANGED <<quaternion, rotation_mat, NonPose>>

set_camera_translation_vector_after_rotation(t, check_rotation) ==
    IF check_rotation /\ ~is_rotation_mat_valid(rotation_mat)
    THEN Raise("set_camera_translation_vector_after_rotation", "AssertionError")
    ELSE /\ translation_vec' = t
         /\ center' = VNeg(Dot(Transpose(rotation_mat), t))
         /\ Return("set_camera_translation_vector_after_rotation", "ok", None)
         /\ UNCHANGED <<quaternion, rotation_mat, NonPose>>

\* set_rotation_mat followed by set_camera_center_after_rotation; the second
\* assertion tests the matrix the first one has just accepted and stored.
set_4x4_cam_to_world_mat(m4, check_rotation) ==
    LET m == Transpose(UpperLeft3(m4))
        c == LastColumn3(m4)
    IN  IF check_rotation /\ ~is_rotation_mat_valid(m)
        THEN Raise("set_4x4_cam_to_world_mat", "AssertionError")
        ELSE /\ rotation_mat' = m
             /\ quaternion' = rotation_matrix_to_quaternion(m)
             /\ center' = c
             /\ translation_vec' = VNeg(Dot(m, c))
             /\ Return("set_4x4_cam_to_world_mat", "ok", None)
             /\ UNCHANGED NonPose

\* get_4x4_cam_to_world_mat: [[R^T, c], [0, 1]] of the stored pose
get_4x4_cam_to_world_mat == Mat4(Transpose(rotation_mat), center)

SetQuaternion ==
    /\ \E q \in QuatInputs : set_quaternion(q)
    /\ UNCHANGED caller
SetRotationMat ==
    /\ \E m \in PoseMatInputs : set_rotation_mat(m, TRUE)
    /\ UNCHANGED caller
SetCenter ==
    /\ \E c \in VecInputs : set_camera_center_after_rotation(c, TRUE)
    /\ UNCHANGED caller
SetTranslation ==
    /\ \E t \in VecInputs : set_camera_translation_vector_after_rotation(t, TRUE)
    /\ UNCHANGED caller
SetCamToWorld ==
    /\ \E m4 \in CamToWorldInputs : set_4x4_cam_to_world_mat(m4, TRUE)
    /\ UNCHANGED caller

PoseInit == CameraInit /\ caller = Idle

\* The rotation / centre / translation setters, rotation check on (the default).
TranslationNext == SetRotationMat \/ SetCenter \/ SetTranslation
SpecTranslation == PoseInit /\ [][TranslationNext]_vars

\* The operations that write the orientation, rotation check on.
SyncNext == SetQuaternion \/ SetRotationMat \/ SetCamToWorld
SpecSync == PoseInit /\ [][SyncNext]_vars

-----------------------------------------------------------------------------
(* A caller of the two static conversions: matrix -> quaternion -> matrix. *)

RoundTripInputs == SignedPermMats \cup OtherMats

RoundTripInit ==
    /\ CameraInit
    /\ \E m \in RoundTripInputs : caller = [pc |-> "start", m |-> m]

CameraUnchanged ==
    UNCHANGED <<poseVars, intrVars, pathVars, sizeVars, depthVars>>

CallRotationMatrixToQuaternion ==
    /\ caller.pc = "start"
    /\ caller' = [pc |-> "quat", m |-> caller.m,
                  q |-> rotation_matrix_to_quaternion(caller.m)]
    /\ Return("rotation_matrix_to_quaternion", "ok", None)
    /\ CameraUnchanged

CallQuaternionToRotationMatrix ==
    /\ caller.pc = "quat"
    /\ caller' = [pc |-> "done", m |-> caller.m, q |-> caller.q,
                  back |-> quaternion_to_rotation_matrix(caller.q)]
    /\ Return("quaternion_to_rotation_matrix", "ok", None)
    /\ CameraUnchanged

RoundTripNext == CallRotationMatrixToQuaternion \/ CallQuaternionToRotationMatrix
SpecRoundTrip == RoundTripInit /\ [][RoundTripNext]_vars

-----------------------------------------------------------------------------
(* Properties of the pose component.                                       *)

OrientationWriters ==
    {"set_quaternion", "set_rotation_mat", "set_4x4_cam_to_world_mat"}

\* C1 (as claimed): after any sequence of set_rotation_mat,
\* set_camera_center_after_rotation and
\* set_camera_translation_vector_after_rotation calls the stored fields
\* satisfy translation_vec = -rotation_mat . center.
C1_TranslationIsMinusRotatedCenter ==
    translation_vec = VNeg(Dot(rotation_mat, center))

\* C2 (as claimed): after one or more successful calls of set_quaternion,
\* set_rotation_mat and set_4x4_cam_to_world_mat (rotation check on) the
\* stored quaternion converts to the stored rotation matrix.
C2_QuaternionMatchesRotationMat ==
    (lastOp \in OrientationWriters /\ err = "ok")
        => quaternion_to_rotation_matrix(quaternion) = rotation_mat

\* C3 (as claimed): for every matrix R accepted by is_rotation_mat_valid,
\* quaternion_to_rotation_matrix(rotation_matrix_to_quaternion(R)) = R.
C3_RoundTripOfValidMat ==
    (caller.pc = "done" /\ is_rotation_mat_valid(caller.m)) => caller.back = caller.m

-----------------------------------------------------------------------------
(* Path resolution.  A path is a sequence of characters; os.path is the    *)
(* POSIX one.                                                              *)

Sep == "/"

\* what a query yields: the exception it raises, or "ok" and its value
Result(e, v) == [err |-> e, val |-> v]
Ok(v) == Result("ok", Some(v))
Failed(e) == Result(e, None)

\* p.rfind("/") + 1: the position after the last separator
AfterLastSep(p) ==
    LET seps == {i \in 1..Len(p) : p[i] = Sep}
    IN  IF seps = {} THEN 1 ELSE (CHOOSE i \in seps : \A j \in seps : j <= i) + 1

\* os.path.basename(p)
Basename(p) == SubSeq(p, AfterLastSep(p), Len(p))

\* os.path.join(a, b)
PathJoin(a, b) ==
    IF Len(b) > 0 /\ b[1] = Sep THEN b
    ELSE IF Len(a) = 0 \/ a[Len(a)] = Sep THEN a \o b
    ELSE a \o <<Sep>> \o b

FpTypes == {"NAME", "RELATIVE", "ABSOLUTE"}

_get_relative_fp(rel, abs) ==
    CASE image_fp_type = "NAME" ->
           IF IsNone(rel) THEN Failed("AssertionError") ELSE Ok(Basename(Val(rel)))
      [] image_fp_type = "RELATIVE" ->
           IF IsNone(rel) THEN Failed("AssertionError") ELSE Ok(Val(rel))
      [] image_fp_type = "ABSOLUTE" ->
           IF IsNone(abs) THEN Failed("AssertionError") ELSE Ok(Val(abs))
      [] OTHER -> Failed("AssertionError")

_get_absolute_fp_JoinsWholeRelativePath(rel, abs) ==
    CASE image_fp_type \in {"NAME", "RELATIVE"} ->
           IF IsNone(image_dp) \/ IsNone(rel) THEN Failed("AssertionError")
           ELSE Ok(PathJoin(Val(image_dp), Val(rel)))
      [] image_fp_type = "ABSOLUTE" ->
           IF IsNone(abs) THEN Failed("AssertionError") ELSE Ok(Val(abs))
      [] OTHER -> Failed("AssertionError")

_get_absolute_fp(rel, abs) ==
    CASE image_fp_type = "NAME" ->
           IF IsNone(image_dp) \/ IsNone(rel) THEN Failed("AssertionError")
           ELSE Ok(PathJoin(Val(image_dp), Basename(Val(rel))))
      [] image_fp_type = "RELATIVE" ->
           IF IsNone(image_dp) \/ IsNone(rel) THEN Failed("AssertionError")
           ELSE Ok(PathJoin(Val(image_dp), Val(rel)))
      [] image_fp_type = "ABSOLUTE" ->
           IF IsNone(abs) THEN Failed("AssertionError") ELSE Ok(Val(abs))
      [] OTHER -> Failed("AssertionError")

NonPath == <<poseVars, intrVars, sizeVars, depthVars>>

\* a query: nothing of the Camera changes
Query(op, r) ==
    /\ Return(op, r.err, r.val)
    /\ UNCHANGED <<poseVars, intrVars, pathVars, sizeVars, depthVars>>

set_relative_fp(fp, fp_type) ==
    /\ relative_fp' = Some(fp)
    /\ image_fp_type' = fp_type
    /\ Return("set_relative_fp", "ok", None)
    /\ UNCHANGED <<image_dp, absolute_fp, NonPath>>

set_absolute_fp_SetsType(fp) ==
    /\ absolute_fp' = Some(fp)
    /\ image_fp_type' = "ABSOLUTE"
    /\ Return("set_absolute_fp", "ok", None)
    /\ UNCHANGED <<image_dp, relative_fp, NonPath>>

set_absolute_fp(fp) ==
    /\ absolute_fp' = Some(fp)
    /\ Return("set_absolute_fp", "ok", None)
    /\ UNCHANGED <<image_fp_type, image_dp, relative_fp, NonPath>>

\* camera.image_dp = dp: the field is public and has no setter
assign_image_dp(dp) ==
    /\ image_dp' = Some(dp)
    /\ Return("image_dp=", "ok", None)
    /\ UNCHANGED <<image_fp_type, relative_fp, absolute_fp, NonPath>>

get_relative_fp == Query("get_relative_fp", _get_relative_fp(relative_fp, absolute_fp))
get_absolute_fp == Query("get_absolute_fp", _get_absolute_fp(relative_fp, absolute_fp))

\* os.path.basename(self.get_absolute_fp())
get_file_name ==
    LET r == _get_absolute_fp(relative_fp, absolute_fp)
    IN  Query("get_file_name",
              IF r.err = "ok" THEN Ok(Basename(Val(r.val))) ELSE r)

\* every path of at most n characters over the alphabet {"/", "a"}
RECURSIVE PathsUpTo(_)
PathsUpTo(n) ==
    IF n = 0 THEN {<<>>}
    ELSE LET shorter == PathsUpTo(n - 1)
         IN  shorter \cup {Append(q, ch) : q \in shorter, ch \in {Sep, "a"}}

RelPathInputs == PathsUpTo(MaxPathLen)
DirInputs == {<<>>, <<Sep, "d">>, <<"d", Sep>>}
AbsPathInputs == {<<Sep, "x", Sep, "y">>, <<Sep, "x">>}

SetRelativeFp ==
    /\ \E fp \in RelPathInputs, t \in FpTypes : set_relative_fp(fp, t)
    /\ UNCHANGED caller
SetAbsoluteFp ==
    /\ \E fp \in AbsPathInputs : set_absolute_fp(fp)
    /\ UNCHANGED caller
AssignImageDp ==
    /\ \E dp \in DirInputs : assign_image_dp(dp)
    /\ UNCHANGED caller
GetRelativeFp == get_relative_fp /\ UNCHANGED caller
GetAbsoluteFp == get_absolute_fp /\ UNCHANGED caller
GetFileName == get_file_name /\ UNCHANGED caller

PathInit == CameraInit /\ caller = Idle
PathNext ==
    \/ SetRelativeFp
    \/ SetAbsoluteFp
    \/ AssignImageDp
    \/ GetRelativeFp
    \/ GetAbsoluteFp
    \/ GetFileName
SpecPath == PathInit /\ [][PathNext]_vars

-----------------------------------------------------------------------------
(* Properties of path resolution.                                          *)

\* The last component of p, said without searching for the separator: the
\* suffix free of separators that starts the path or follows a separator.
LastComponent(p) ==
    CHOOSE b \in {SubSeq(p, i, Len(p)) : i \in 1..(Len(p) + 1)} :
        /\ \A k \in 1..Len(b) : b[k] # Sep
        /\ Len(b) = Len(p) \/ p[Len(p) - Len(b)] = Sep

\* directory / path: the path itself when it is absolute, otherwise the
\* directory, one separator unless the directory is empty or ends in one,
\* and the path
Slash(dir, p) ==
    CASE Len(p) > 0 /\ p[1] = Sep -> p
      [] Len(p) = 0 \/ p[1] # Sep ->
           IF dir = <<>> THEN p
           ELSE IF dir[Len(dir)] = Sep THEN dir \o p
           ELSE dir \o <<Sep>> \o p

\* C5: under NAME, get_relative_fp() = basename(relative_fp) and
\* get_absolute_fp() = image_dp / basename(relative_fp); under RELATIVE they
\* are relative_fp and image_dp / relative_fp; under ABSOLUTE both
\* return the stored absolute_fp whatever image_dp and relative_fp are.
C5_PathResolutionByMode ==
    /\ (lastOp = "get_relative_fp" /\ image_fp_type = "NAME" /\ ~IsNone(relative_fp))
         => (err = "ok" /\ ret = Some(LastComponent(Val(relative_fp))))
    /\ (lastOp = "get_absolute_fp" /\ image_fp_type = "NAME"
          /\ ~IsNone(relative_fp) /\ ~IsNone(image_dp))
         => (err = "ok"
             /\ ret = Some(Slash(Val(image_dp), LastComponent(Val(relative_fp)))))
    /\ (lastOp = "get_relative_fp" /\ image_fp_type = "RELATIVE" /\ ~IsNone(relative_fp))
         => (err = "ok" /\ ret = relative_fp)
    /\ (lastOp = "get_absolute_fp" /\ image_fp_type = "RELATIVE"
          /\ ~IsNone(relative_fp) /\ ~IsNone(image_dp))
         => (err = "ok" /\ ret = Some(Slash(Val(image_dp), Val(relative_fp))))
    /\ (lastOp \in {"get_relative_fp", "get_absolute_fp"}
          /\ image_fp_type = "ABSOLUTE" /\ ~IsNone(absolute_fp))
         => (err = "ok" /\ ret = absolute_fp)

\* NAME mode drops the directory part of "a/a" and resolves it in "/d"
C5_Witness ==
    /\ lastOp = "get_absolute_fp"
    /\ image_fp_type = "NAME"
    /\ relative_fp = Some(<<"a", Sep, "a">>)
    /\ image_dp = Some(<<Sep, "d">>)
    /\ ret = Some(<<Sep, "d", Sep, "a">>)

\* C7 (as claimed): once image_fp_type is NAME, RELATIVE or ABSOLUTE, no
\* operation changes it.
C7_ModeNeverChanges ==
    [][(image_fp_type \in FpTypes) => (image_fp_type' = image_fp_type)]_vars

\* C7 (amended): only set_relative_fp changes image_fp_type; it sets it to the
\* type tag it is given, whatever the mode was.
C7_OnlySetRelativeFpChangesMode ==
    [][(image_fp_type' # image_fp_type)
         => (lastOp' = "set_relative_fp" /\ image_fp_type' \in FpTypes)]_vars

\* the mode is set and a later operation, not set_relative_fp, has run
C7_Witness ==
    /\ image_fp_type = "RELATIVE"
    /\ lastOp = "set_absolute_fp"
    /\ ~IsNone(absolute_fp)

-----------------------------------------------------------------------------
(* Intrinsics.  The calibration matrix is a float array, as __init__ and   *)
(* set_calibration make it: dividing by a zero entry yields inf, written   *)
(* <<1, 0>>, and raises nothing.                                           *)

compute_calibration_mat(focal_length, cx, cy) ==
    << <<focal_length, RZero, cx>>, <<RZero, focal_length, cy>>,
       <<RZero, RZero, ROne>> >>

NonIntr == <<poseVars, pathVars, sizeVars, depthVars>>

\* the assertion follows the two assignments
set_calibration(calibration_mat_, radial_distortion_) ==
    /\ calibration_mat' = calibration_mat_
    /\ radial_distortion' = radial_distortion_
    /\ Return("set_calibration",
              IF radial_distortion_ = "None" THEN "AssertionError" ELSE "ok", None)
    /\ UNCHANGED NonIntr

set_calibration_mat(calibration_mat_) ==
    /\ calibration_mat' = calibration_mat_
    /\ Return("set_calibration_mat", "ok", None)
    /\ UNCHANGED <<radial_distortion, NonIntr>>

set_principal_point(principal_point) ==
    /\ calibration_mat' =
         [calibration_mat EXCEPT ![1][3] = principal_point[1],
                                 ![2][3] = principal_point[2]]
    /\ Return("set_principal_point", "ok", None)
    /\ UNCHANGED <<radial_distortion, NonIntr>>

has_focal_length == RLt(RZero, calibration_mat[1][1])
get_focal_length == calibration_mat[1][1]

is_principal_point_initialized ==
    LET cx_zero == IsClose(calibration_mat[1][3], 0)
        cy_zero == IsClose(calibration_mat[2][3], 0)
    IN  (~cx_zero) /\ (~cy_zero)

has_intrinsics == has_focal_length /\ is_principal_point_initialized

check_calibration_mat_FocalLengthOnly == has_focal_length

\* the assertion of check_calibration_mat: TRUE when it passes
check_calibration_mat == has_focal_length /\ is_principal_point_initialized

get_calibration_mat ==
    IF check_calibration_mat THEN Ok(calibration_mat) ELSE Failed("AssertionError")

get_principal_point ==
    IF check_calibration_mat
    THEN Ok(<<calibration_mat[1][3], calibration_mat[2][3]>>)
    ELSE Failed("AssertionError")

Max(a, b) == IF a >= b THEN a ELSE b

\* 2 * atan(x), kept as the argument x
TwiceAtan(x) == [twice_atan_of |-> x]

get_field_of_view ==
    IF IsNone(width) \/ IsNone(height) THEN Failed("AssertionError")
    ELSE Ok(TwiceAtan(RDiv(FromInt(Max(Val(width), Val(height))),
                           RMul(get_focal_length, RTwo))))

\* camera.width = w, camera.height = h: public fields without setters
assign_width(w) ==
    /\ width' = Some(w)
    /\ Return("width=", "ok", None)
    /\ UNCHANGED <<height, poseVars, intrVars, pathVars, depthVars>>

assign_height(h) ==
    /\ height' = Some(h)
    /\ Return("height=", "ok", None)
    /\ UNCHANGED <<width, poseVars, intrVars, pathVars, depthVars>>

FocalInputs == {FromInt(-1), RZero, ROne, RTwo}
PrincipalPointInputs ==
    {<<RZero, RZero>>, <<ROne, ROne>>, <<Rat(1, 10000), FromInt(3)>>,
     <<RZero, ROne>>, <<Rat(1, 1000000000), ROne>>}
CalibrationInputs ==
    {compute_calibration_mat(f, pp[1], pp[2]) :
        f \in FocalInputs, pp \in {<<RZero, RZero>>, <<ROne, ROne>>}}
SideInputs == 1..MaxSide

SetCalibration ==
    /\ \E k \in CalibrationInputs, rd \in {"None", "given"} : set_calibration(k, rd)
    /\ UNCHANGED caller
SetCalibrationMat ==
    /\ \E k \in CalibrationInputs : set_calibration_mat(k)
    /\ UNCHANGED caller
SetPrincipalPoint ==
    /\ \E pp \in PrincipalPointInputs : set_principal_point(pp)
    /\ UNCHANGED caller
AssignWidth == (\E w \in SideInputs : assign_width(w)) /\ UNCHANGED caller
AssignHeight == (\E h \in SideInputs : assign_height(h)) /\ UNCHANGED caller
GetFieldOfView == Query("get_field_of_view", get_field_of_view) /\ UNCHANGED caller
GetPrincipalPoint == Query("get_principal_point", get_principal_point) /\ UNCHANGED caller
HasIntrinsics == Query("has_intrinsics", Ok(has_intrinsics)) /\ UNCHANGED caller

IntrinsicsInit == CameraInit /\ caller = Idle
IntrinsicsNext ==
    \/ SetCalibration
    \/ SetCalibrationMat
    \/ SetPrincipalPoint
    \/ AssignWidth
    \/ AssignHeight
    \/ GetFieldOfView
    \/ GetPrincipalPoint
    \/ HasIntrinsics
SpecIntrinsics == IntrinsicsInit /\ [][IntrinsicsNext]_vars

\* C6 (as claimed): get_field_of_view fails exactly when width or height is
\* unset or the focal length is not > 0; it returns an angle only when width
\* and height are set and the focal length is > 0.
C6_FieldOfViewNeedsFocalLength ==
    lastOp = "get_field_of_view"
        => ((err # "ok") <=> (IsNone(width) \/ IsNone(height) \/ ~has_focal_length))

-----------------------------------------------------------------------------
(* Depth maps.  A decoded depth map is a sequence of rows of depth values; *)
(* the decoder stored by set_depth_map is kept as the array it returns.    *)

DEPTH_MAP_WRT_UNIT_VECTORS == "DEPTH_MAP_WRT_UNIT_VECTORS"
DEPTH_MAP_WRT_CANONICAL_VECTORS == "DEPTH_MAP_WRT_CANONICAL_VECTORS"

\* the value of depth_map_display_sparsity that switches subsampling off
NoSubsampling == 100

\* the files os.path.isfile finds
FilesOnDisk == {"depth/present.bin"}

set_depth_map(depth_map_ifp, depth_map_callback_, depth_map_semantic_) ==
    /\ depth_map_fp' = Some(depth_map_ifp)
    /\ depth_map_callback' = Some(depth_map_callback_)
    /\ depth_map_semantic' = depth_map_semantic_
    /\ Return("set_depth_map", "ok", None)
    /\ UNCHANGED <<poseVars, intrVars, pathVars, sizeVars>>

\* get_depth_map, called with depth_map_fp set: the decoded array, or None
get_depth_map ==
    IF Val(depth_map_fp) \in FilesOnDisk THEN depth_map_callback ELSE None

\* depth_map.shape
Shape(depth_map) == <<Len(depth_map), Len(depth_map[1])>>

\* depth_map.flatten()[i], i counted from 0
Flat(depth_map, i) ==
    LET w == Shape(depth_map)[2]
    IN  depth_map[(i \div w) + 1][(i % w) + 1]

\* Entry i (from 0) of the three canonical coordinate lists: the index lists
\* are reversed, so entry i holds the pixel with raster index h*w - 1 - i.
CanonicalVector_NotReversed(i, h, w) ==
    LET fx == RNeg(calibration_mat[1][1])
        fy == RNeg(calibration_mat[2][2])
    IN  << RDiv(RSub(RAdd(FromInt(i % w), RHalf), calibration_mat[1][3]), fx),
           RDiv(RSub(RAdd(FromInt(i \div w), RHalf), calibration_mat[2][3]), fy),
           ROne >>

CanonicalVector(i, h, w) ==
    LET x_index == (h * w - 1 - i) % w
        y_index == (h * w - 1 - i) \div w
        fx == RNeg(calibration_mat[1][1])
        fy == RNeg(calibration_mat[2][2])
        cx == calibration_mat[1][3]
        cy == calibration_mat[2][3]
    IN  << RDiv(RSub(RAdd(FromInt(x_index), RHalf), cx), fx),
           RDiv(RSub(RAdd(FromInt(y_index), RHalf), cy), fy),
           ROne >>

\* the positions 0 .. n-1 in order
Upto(n) == [k \in 1..n |-> k - 1]

\* seq[::step]
EveryNth(seq, step) ==
    [k \in 1..((Len(seq) + step - 1) \div step) |-> seq[(k - 1) * step + 1]]

\* the entries left of the coordinate and depth lists, as positions of the
\* flattened map: first the mask depth_values > 0, then the slice [::sparsity]
KeptPositions_SliceBeforeMask(depth_map, sparsity) ==
    LET n == Shape(depth_map)[1] * Shape(depth_map)[2]
        Positive(i) == Flat(depth_map, i) > 0
        all == Upto(n)
    IN  SelectSeq(IF sparsity # NoSubsampling THEN EveryNth(all, sparsity) ELSE all,
                  Positive)

KeptPositions(depth_map, sparsity) ==
    LET n == Shape(depth_map)[1] * Shape(depth_map)[2]
        Positive(i) == Flat(depth_map, i) > 0
        filtered == SelectSeq(Upto(n), Positive)
    IN  IF sparsity # NoSubsampling THEN EveryNth(filtered, sparsity) ELSE filtered

\* M . (v, hom), without the homogeneous row
Apply4(m4, v, hom) ==
    [i \in I3 |-> RAdd(RAdd(RMul(m4[i][1], v[1]), RMul(m4[i][2], v[2])),
                       RAdd(RMul(m4[i][3], v[3]), RMul(m4[i][4], hom)))]

\* One world point.  Under DEPTH_MAP_WRT_CANONICAL_VECTORS it is the rational
\* vector M . (depth * vec, 1).  Under DEPTH_MAP_WRT_UNIT_VECTORS the depth is
\* divided by the norm of vec, a square root: the point is
\* dir / sqrt(norm2) + origin, kept as these three parts.
WorldPoint(vec, depth) ==
    IF depth_map_semantic = DEPTH_MAP_WRT_CANONICAL_VECTORS
    THEN Apply4(get_4x4_cam_to_world_mat, VScale(FromInt(depth), vec), ROne)
    ELSE [dir |-> Apply4(get_4x4_cam_to_world_mat, VScale(FromInt(depth), vec), RZero),
          norm2 |-> RAdd(RAdd(RMul(vec[1], vec[1]), RMul(vec[2], vec[2])),
                         RMul(vec[3], vec[3])),
          origin |-> Apply4(get_4x4_cam_to_world_mat, ZeroVec, ROne)]

convert_depth_map_to_world_coords(depth_map_display_sparsity) ==
    IF ~(0 < depth_map_display_sparsity) THEN Failed("AssertionError")
    ELSE IF IsNone(depth_map_fp) THEN Failed("TypeError")
    ELSE IF IsNone(get_depth_map) THEN Failed("AttributeError")
    ELSE LET depth_map == Val(get_depth_map)
             h == Shape(depth_map)[1]
             w == Shape(depth_map)[2]
             kept == KeptPositions(depth_map, depth_map_display_sparsity)
         IN  IF height # Some(h) \/ width # Some(w) THEN Failed("AssertionError")
             ELSE IF ~check_calibration_mat THEN Failed("AssertionError")
             ELSE IF depth_map_semantic \notin {DEPTH_MAP_WRT_CANONICAL_VECTORS,
                                                 DEPTH_MAP_WRT_UNIT_VECTORS}
             THEN Failed("AssertionError")
             ELSE Ok([k \in 1..Len(kept) |->
                        WorldPoint(CanonicalVector(kept[k], h, w),
                                   Flat(depth_map, kept[k]))])

-----------------------------------------------------------------------------
(* A reader populates the Camera field by field (or leaves a field at its  *)
(* default), then the Camera is consumed read-only.                        *)

RECURSIVE RowsOver(_, _)
RowsOver(vals, w) ==
    IF w = 0 THEN {<<>>}
    ELSE {Append(r, v) : r \in RowsOver(vals, w - 1), v \in vals}

DepthValues == 0..MaxDepth

\* one row of WideWidth pixels: the first is background, the others have depth 1
WideMap == << [x \in 1..WideWidth |-> IF x = 1 THEN 0 ELSE 1] >>

DepthMapInputs ==
    {<<r>> : r \in RowsOver(DepthValues, 1)}
    \cup {<<r>> : r \in RowsOver(DepthValues, 2)}
    \cup {<<<<r[1]>>, <<r[2]>>>> : r \in RowsOver(DepthValues, 2)}
    \cup {<<<<1, 2>>, <<0, 1>>>>, <<<<2, -1>>, <<1, 1>>>>, WideMap}

SetDepthMapInputs ==
    {<<"depth/present.bin", dm, sem>> :
        dm \in DepthMapInputs,
        sem \in {DEPTH_MAP_WRT_CANONICAL_VECTORS, DEPTH_MAP_WRT_UNIT_VECTORS}}
    \cup {<<"depth/missing.bin", <<<<2>>>>, sem>> :
        sem \in {DEPTH_MAP_WRT_CANONICAL_VECTORS, DEPTH_MAP_WRT_UNIT_VECTORS}}
    \cup {<<"depth/present.bin", <<<<2>>>>, "DEPTH_MAP_WRT_OTHER">>}

ReaderPoseInputs ==
    {Mat4(IdentityMat, ZeroVec), Mat4(Transpose(RotZ90), IntVec(<<1, -2, 3>>))}

ReaderCalibrationInputs ==
    {compute_calibration_mat(ROne, RZero, RZero),
     compute_calibration_mat(ROne, ROne, ROne),
     compute_calibration_mat(RTwo, RHalf, Rat(3, 2))}

SparsityInputs == (0..MaxStep) \cup {NoSubsampling}

Stages == <<"pose", "calibration", "width", "height", "depth_map", "populated">>
StageAfter(st) == Stages[(CHOOSE i \in 1..5 : Stages[i] = st) + 1]
Advance == caller' = [pc |-> StageAfter(caller.pc)]

ReaderSetsPose ==
    /\ caller.pc = "pose"
    /\ \E m4 \in ReaderPoseInputs : set_4x4_cam_to_world_mat(m4, TRUE)
    /\ Advance

ReaderSetsCalibration ==
    /\ caller.pc = "calibration"
    /\ \E k \in ReaderCalibrationInputs : set_calibration(k, "given")
    /\ Advance

ReaderAssignsWidth ==
    /\ caller.pc = "width"
    /\ \E w \in SideInputs \cup {WideWidth} : assign_width(w)
    /\ Advance

ReaderAssignsHeight ==
    /\ caller.pc = "height"
    /\ \E h \in SideInputs : assign_height(h)
    /\ Advance

ReaderSetsDepthMap ==
    /\ caller.pc = "depth_map"
    /\ \E a \in SetDepthMapInputs : set_depth_map(a[1], a[2], a[3])
    /\ Advance

\* the reader leaves the field as __init__ set it
ReaderSkips ==
    /\ caller.pc \in {"pose", "calibration", "width", "height", "depth_map"}
    /\ Advance
    /\ UNCHANGED <<poseVars, intrVars, pathVars, sizeVars, depthVars, lastOp, err, ret>>

GetDepthMap ==
    /\ caller.pc = "populated"
    /\ ~IsNone(depth_map_fp)
    /\ Query("get_depth_map", Result("ok", get_depth_map))
    /\ caller' = [pc |-> "populated"]

ConvertDepthMapToWorldCoords ==
    /\ caller.pc = "populated"
    /\ \E sp \in SparsityInputs :
          /\ Query("convert_depth_map_to_world_coords",
                   convert_depth_map_to_world_coords(sp))
          /\ caller' = [pc |-> "populated", sparsity |-> sp]

DepthInit == CameraInit /\ caller = [pc |-> "pose"]
DepthNext ==
    \/ ReaderSetsPose
    \/ ReaderSetsCalibration
    \/ ReaderAssignsWidth
    \/ ReaderAssignsHeight
    \/ ReaderSetsDepthMap
    \/ ReaderSkips
    \/ GetDepthMap
    \/ ConvertDepthMapToWorldCoords
SpecDepth == DepthInit /\ [][DepthNext]_vars

-----------------------------------------------------------------------------
(* Properties of depth-map unprojection, stated over pixels (x, y), x the  *)
(* column and y the row, both counted from 0.                              *)

Converted == lastOp = "convert_depth_map_to_world_coords"

\* what the unprojection needs: the depth file exists, the decoded array has
\* the Camera's height and width, the intrinsics are usable, the semantic is
\* one of the two known ones, the sparsity is positive
DepthFileExists == ~IsNone(depth_map_fp) /\ Val(depth_map_fp) \in FilesOnDisk
DecodedMap == Val(depth_map_callback)
MapH == Len(DecodedMap)
MapW == Len(DecodedMap[1])
Unprojectable ==
    /\ Converted
    /\ caller.sparsity \in 1..NoSubsampling
    /\ DepthFileExists
    /\ height = Some(MapH) /\ width = Some(MapW)
    /\ has_intrinsics
    /\ depth_map_semantic \in
         {DEPTH_MAP_WRT_CANONICAL_VECTORS, DEPTH_MAP_WRT_UNIT_VECTORS}

DepthOf(x, y) == DecodedMap[y + 1][x + 1]

\* ((x + 0.5 - cx) / -fx, (y + 0.5 - cy) / -fy, 1)
PixelRay(x, y) ==
    << RDiv(RSub(Rat(2 * x + 1, 2), calibration_mat[1][3]), RNeg(calibration_mat[1][1])),
       RDiv(RSub(Rat(2 * y + 1, 2), calibration_mat[2][3]), RNeg(calibration_mat[2][2])),
       ROne >>

\* R^T p + center
CamToWorld(p) == VAdd(Dot(Transpose(rotation_mat), p), center)

Pixels == (0..(MapW - 1)) \X (0..(MapH - 1))
ReturnedPoints == {Val(ret)[k] : k \in 1..Len(Val(ret))}

\* C4 (as claimed): when depth_map_fp names no existing file, the
\* unprojection yields "no data" and does not fail, for every sparsity and
\* semantic.
C4_MissingDepthFileYieldsNoData ==
    (/\ Converted
     /\ caller.sparsity > 0
     /\ ~IsNone(depth_map_fp)
     /\ Val(depth_map_fp) \notin FilesOnDisk)
        => (err = "ok" /\ ret = None)

\* the setting of C8: a 1x1 map of depth 2, fx = fy = 1, identity pose,
\* DEPTH_MAP_WRT_CANONICAL_VECTORS
OnePixelSetting ==
    /\ Converted
    /\ caller.sparsity \in 1..NoSubsampling
    /\ DepthFileExists
    /\ DecodedMap = <<<<2>>>>
    /\ height = Some(1) /\ width = Some(1)
    /\ depth_map_semantic = DEPTH_MAP_WRT_CANONICAL_VECTORS
    /\ rotation_mat = IdentityMat /\ center = ZeroVec
    /\ calibration_mat[1][1] = ROne /\ calibration_mat[2][2] = ROne

PrincipalPointIs(cx, cy) ==
    calibration_mat[1][3] = FromInt(cx) /\ calibration_mat[2][3] = FromInt(cy)

\* C8 (as claimed): in that setting with cx = cy = 0 the unprojection
\* succeeds and returns exactly one world point, (-1, -1, 2).
C8_OnePixelAtOrigin ==
    (OnePixelSetting /\ PrincipalPointIs(0, 0))
        => (err = "ok" /\ ret = Some(<<IntVec(<<-1, -1, 2>>)>>))

\* C8 (amended): with cx = cy = 0 the unprojection fails its calibration
\* check (a principal point of (0, 0) counts as uninitialised) and returns
\* nothing; with cx = cy = 1 it returns exactly one world point, (1, 1, 2).
C8_OnePixelNeedsPrincipalPoint ==
    /\ (OnePixelSetting /\ PrincipalPointIs(0, 0))
         => (err = "AssertionError" /\ ret = None)
    /\ (OnePixelSetting /\ PrincipalPointIs(1, 1))
         => (err = "ok" /\ ret = Some(<<IntVec(<<1, 1, 2>>)>>))

C8_Witness ==
    /\ OnePixelSetting
    /\ PrincipalPointIs(0, 0)
    /\ has_focal_length
    /\ err = "AssertionError"

\* C9 (as claimed): under DEPTH_MAP_WRT_CANONICAL_VECTORS with usable
\* intrinsics and sparsity 100, the returned points are exactly the points
\* depth(x, y) * ray(x, y) of the pixels with depth > 0, moved to world space.
C9_DepthScalesOwnRay ==
    (Unprojectable /\ caller.sparsity = NoSubsampling
       /\ depth_map_semantic = DEPTH_MAP_WRT_CANONICAL_VECTORS)
        => (/\ err = "ok"
            /\ ReturnedPoints =
                 {CamToWorld(VScale(FromInt(DepthOf(px[1], px[2])), PixelRay(px[1], px[2]))) :
                    px \in {q \in Pixels : DepthOf(q[1], q[2]) > 0}})

\* C9 (amended): the depth of pixel (x, y) scales the canonical ray of the
\* point-mirrored pixel (width - 1 - x, height - 1 - y); the returned points
\* are exactly these, moved to world space.
C9_DepthScalesMirroredRay ==
    (Unprojectable /\ caller.sparsity = NoSubsampling
       /\ depth_map_semantic = DEPTH_MAP_WRT_CANONICAL_VECTORS)
        => (/\ err = "ok"
            /\ ReturnedPoints =
                 {CamToWorld(VScale(FromInt(DepthOf(px[1], px[2])),
                                    PixelRay(MapW - 1 - px[1], MapH - 1 - px[2]))) :
                    px \in {q \in Pixels : DepthOf(q[1], q[2]) > 0}})

\* a 2x2 map with three different positive depths has been unprojected
C9_Witness ==
    /\ Unprojectable
    /\ caller.sparsity = NoSubsampling
    /\ depth_map_semantic = DEPTH_MAP_WRT_CANONICAL_VECTORS
    /\ DecodedMap = <<<<1, 2>>, <<0, 1>>>>
    /\ rotation_mat = RotZ90
    /\ err = "ok"
    /\ Len(Val(ret)) = 3

\* the positions (raster indices) of the pixels with depth > 0, ascending
RECURSIVE SurvivorsIn(_, _)
SurvivorsIn(lo, hi) ==
    IF lo > hi THEN <<>>
    ELSE IF lo = hi
         THEN IF DepthOf(lo % MapW, lo \div MapW) > 0 THEN <<lo>> ELSE <<>>
         ELSE LET mid == (lo + hi) \div 2
              IN  SurvivorsIn(lo, mid) \o SurvivorsIn(mid + 1, hi)
Survivors == SurvivorsIn(0, MapW * MapH - 1)

\* the world point the surviving pixel with raster index i yields
ExpectedPoint(i) ==
    LET x == i % MapW
        y == i \div MapW
        ray == PixelRay(MapW - 1 - x, MapH - 1 - y)
        scaled == VScale(FromInt(DepthOf(x, y)), ray)
    IN  IF depth_map_semantic = DEPTH_MAP_WRT_CANONICAL_VECTORS
        THEN CamToWorld(scaled)
        ELSE [dir |-> Dot(Transpose(rotation_mat), scaled),
              norm2 |-> RAdd(RAdd(RMul(ray[1], ray[1]), RMul(ray[2], ray[2])), ROne),
              origin |-> center]

\* C10: pixels with depth <= 0 are discarded first and the survivors are
\* subsampled: for n survivors and sparsity s in (0, 100] the output has n
\* points when s = 100 and otherwise ceil(n / s) points, those of the
\* survivors at positions 0, s, 2s, ... of the iteration order.
C10_MaskThenSubsample ==
    Unprojectable =>
        LET surv == Survivors
            n == Len(surv)
            sp == caller.sparsity
            count == IF sp = NoSubsampling THEN n ELSE (n + sp - 1) \div sp
            pos(k) == IF sp = NoSubsampling THEN k ELSE (k - 1) * sp + 1
        IN  /\ err = "ok"
            /\ Len(Val(ret)) = count
            /\ \A k \in 1..count : Val(ret)[k] = ExpectedPoint(surv[pos(k)])

\* the wide map: more than 100 survivors behind a background pixel, every
\* second one kept
C10_Witness ==
    /\ Unprojectable
    /\ DecodedMap = WideMap
    /\ caller.sparsity = 2
    /\ Len(Survivors) > NoSubsampling
    /\ Len(Val(ret)) = (WideWidth - 1 + 1) \div 2

====
